---------------------------- MODULE Spec2Model ----------------------------
(***************************************************************************)
(* Model of src/main.py: the waitlist raffle of a Meetup event.            *)
(*                                                                         *)
(* One run of main() is a single thread that fetches the RSVPs, derives    *)
(* the capacity figures, queries the attendance counts, builds the raffle  *)
(* table, draws the winners and, when ADD_TO_GUESTLIST is set, posts one   *)
(* RSVP update per winner with a sleep after each.  The Meetup API, the    *)
(* BigQuery result and the environment are inputs, drawn from bounded      *)
(* sets.  The random draw of DataFrame.sample is modelled by the set of    *)
(* outcomes it can produce (the rows of positive weight, without           *)
(* replacement) and by the conditions under which pandas/numpy raise.      *)
(***************************************************************************)
EXTENDS Integers, Sequences, FiniteSets

(* ------------------------------ bounds --------------------------------- *)

\* most RSVP payloads the feed returns (member ids are 1..MaxMembers)
MaxMembers == 2

\* most guests one RSVP carries
MaxGuests == 1

\* largest count of past attendances the query returns for one member
MaxAttendances == 1

\* largest configured MEETUP_TICKETS_MAX
MaxTickets == 2

(* ------------------------------ helpers -------------------------------- *)

Max(a, b) == IF a >= b THEN a ELSE b

Min(a, b) == IF a <= b THEN a ELSE b

Range(s) == {s[j] : j \in 1..Len(s)}

\* the injective sequences of length n over the set S
Arrangements(S, n) ==
    {s \in [1..n -> S] : \A a, b \in 1..n : a # b => s[a] # s[b]}

\* Series.sum(): the sum of column `col` of a frame (0 for an empty frame)
RECURSIVE ColumnSum(_, _)
ColumnSum(frame, col) ==
    IF frame = <<>> THEN 0
    ELSE frame[1][col] + ColumnSum(Tail(frame), col)

\* frame[frame.response == r]: the rows whose response is r, in order
RECURSIVE WhereResponse(_, _)
WhereResponse(frame, r) ==
    IF frame = <<>> THEN <<>>
    ELSE (IF frame[1].response = r THEN <<frame[1]>> ELSE <<>>)
         \o WhereResponse(Tail(frame), r)

(* --------------------------- configuration ----------------------------- *)

\* os.environ holds strings; a variable that is not set is modelled by <<>>
\* and one that is set to the string s by <<s>>.
EnvValues == {<<>>, <<"">>, <<"False">>, <<"True">>}

\* os.environ.get(name, False): the string when set, False otherwise;
\* bool() of a string is its non-emptiness, bool(False) is False.
EnvBool(v) == IF v = <<>> THEN FALSE ELSE v[1] # ""

(* ------------------------------ inputs --------------------------------- *)

Responses == {"yes", "waitlist", "no"}

\* one raw RSVP payload of the Meetup API for member m
Payloads(m) ==
    [member : {[id |-> m, name |-> m]}, response : Responses,
     guests : 0..MaxGuests]

\* the feeds CLIENT.scan can return: one payload per member, members 1..n
RawFeeds ==
    UNION {{f \in [1..n -> UNION {Payloads(m) : m \in 1..MaxMembers}] :
                \A j \in 1..n : f[j].member.id = j} : n \in 1..MaxMembers}

\* the result of the BigQuery query: GROUP BY member_id gives at most one
\* row per member, and only members with at least one attended event.
RECURSIVE CountRows(_, _)
CountRows(counts, m) ==
    IF m > MaxMembers THEN <<>>
    ELSE (IF counts[m] = 0 THEN <<>>
          ELSE <<[member_id |-> m, attendances |-> counts[m]]>>)
         \o CountRows(counts, m + 1)

AttendanceResults ==
    {CountRows(c, 1) : c \in [1..MaxMembers -> 0..MaxAttendances]}

(* ------------------------------ _rsvps --------------------------------- *)

RsvpRow(p) ==
    [member_id |-> p.member.id, member_name |-> p.member.name,
     response |-> p.response, attendees |-> p.guests + 1]

_rsvps(feed) == [j \in 1..Len(feed) |-> RsvpRow(feed[j])]

(* ------------------------------ _raffle -------------------------------- *)

\* the rows of the attendance frame for member m
RECURSIVE OnMember(_, _)
OnMember(right, m) ==
    IF right = <<>> THEN <<>>
    ELSE (IF right[1].member_id = m THEN <<right[1]>> ELSE <<>>)
         \o OnMember(Tail(right), m)

\* a merged row: the RSVP row plus the attendances cell, <<v>> for a value
\* and <<>> for NaN
Joined(row, cell) ==
    [member_id |-> row.member_id, member_name |-> row.member_name,
     response |-> row.response, attendees |-> row.attendees,
     attendances |-> cell]

\* left.merge(right, how="left", on="member_id"): in the order of left, one
\* row per matching row of right, or one row with NaN when none matches
RECURSIVE MergeLeft(_, _)
MergeLeft(left, right) ==
    IF left = <<>> THEN <<>>
    ELSE LET ms == OnMember(right, left[1].member_id)
         IN  (IF ms = <<>> THEN <<Joined(left[1], <<>>)>>
              ELSE [j \in 1..Len(ms) |->
                        Joined(left[1], <<ms[j].attendances>>)])
             \o MergeLeft(Tail(left), right)

\* how="inner": the rows of left without a match are dropped
RECURSIVE MergeInner(_, _)
MergeInner(left, right) ==
    IF left = <<>> THEN <<>>
    ELSE LET ms == OnMember(right, left[1].member_id)
         IN  [j \in 1..Len(ms) |-> Joined(left[1], <<ms[j].attendances>>)]
             \o MergeInner(Tail(left), right)

\* .fillna(0).astype(int)
FillNa(cell) == IF cell = <<>> THEN 0 ELSE cell[1]

RaffleRow(row, n) ==
    [member_id |-> row.member_id, member_name |-> row.member_name,
     response |-> row.response, attendances |-> n]

\* _raffle with an inner join instead of the left join
_raffle_inner(rsvps_, attendances_) ==
    LET merged == MergeInner(rsvps_, attendances_)
    IN  [j \in 1..Len(merged) |->
            RaffleRow(merged[j], FillNa(merged[j].attendances) + 1)]

\* _raffle without the + 1
_raffle_unsmoothed(rsvps_, attendances_) ==
    LET merged == MergeLeft(rsvps_, attendances_)
    IN  [j \in 1..Len(merged) |->
            RaffleRow(merged[j], FillNa(merged[j].attendances))]

_raffle(rsvps_, attendances_) ==
    LET merged == MergeLeft(rsvps_, attendances_)
    IN  [j \in 1..Len(merged) |->
            RaffleRow(merged[j], FillNa(merged[j].attendances) + 1)]

(* ------------------------------ _winners ------------------------------- *)

\* the rows DataFrame.sample can pick: numpy's choice(p=...) without
\* replacement only ever returns positions of non-zero probability
Drawable(frame) == {j \in 1..Len(frame) : frame[j].attendances > 0}

\* DataFrame.sample(n, weights="attendances") raises ValueError when the
\* weights sum to zero (an empty frame included), when n exceeds the
\* population (replace=False) and when fewer than n weights are non-zero
SampleRaises(frame, n) ==
    \/ n < 0
    \/ ColumnSum(frame, "attendances") = 0
    \/ n > Len(frame)
    \/ n > Cardinality(Drawable(frame))

\* the draws DataFrame.sample can return, as sequences of row positions
SampleOutcomes(frame, n) ==
    IF SampleRaises(frame, n) THEN {} ELSE Arrangements(Drawable(frame), n)

\* the candidates of the draw
Candidates(raffle_) == WhereResponse(raffle_, "waitlist")

\* the member_id series _winners can return
_winners(raffle_, n) ==
    LET frame == Candidates(raffle_)
    IN  {[j \in 1..n |-> frame[s[j]].member_id] :
            s \in SampleOutcomes(frame, n)}

\* whether _winners raises
_winners_raises(raffle_, n) == SampleRaises(Candidates(raffle_), n)

(* ---------------------------- capacity --------------------------------- *)

\* rsvps[rsvps.response == r]["attendees"].sum()
Attendees(rsvps_, r) == ColumnSum(WhereResponse(rsvps_, r), "attendees")

\* the difference without the floor at 0
TicketsAvailableUnfloored(tickets_max, taken) == tickets_max - taken

\* max(0, TICKETS_MAX - tickets_taken)
TicketsAvailable(tickets_max, taken) == Max(0, tickets_max - taken)

(* ------------------------------- state --------------------------------- *)

VARIABLES
    MEETUP_ADD_TO_GUESTLIST, \* the environment variable, <<>> when not set
    ADD_TO_GUESTLIST,        \* module constant read from it
    TICKETS_MAX,             \* module constant, int(MEETUP_TICKETS_MAX)
    pc,                      \* where main() is
    rsvps,                   \* locals of main(), <<>> or 0 before assigned
    tickets_taken,
    tickets_available,
    waitlist,
    attendances,
    raffle,
    winners,
    winner,                  \* position of the for loop in winners
    raised,                  \* the exception that ended the run, or "none"
    requests,                \* the POSTs sent to /2/rsvp, with their outcome
    guestlist,               \* members Meetup moved to the guestlist
    sleeps                   \* completed time.sleep(0.5) calls

vars ==
    <<MEETUP_ADD_TO_GUESTLIST, ADD_TO_GUESTLIST, TICKETS_MAX, pc, rsvps,
      tickets_taken, tickets_available, waitlist, attendances, raffle,
      winners, winner, raised, requests, guestlist, sleeps>>

config == <<MEETUP_ADD_TO_GUESTLIST, ADD_TO_GUESTLIST, TICKETS_MAX>>

remote == <<requests, guestlist, sleeps>>

Init ==
    /\ MEETUP_ADD_TO_GUESTLIST \in EnvValues
    /\ ADD_TO_GUESTLIST = EnvBool(MEETUP_ADD_TO_GUESTLIST)
    /\ TICKETS_MAX \in 0..MaxTickets
    /\ pc = "rsvps"
    /\ rsvps = <<>>
    /\ tickets_taken = 0
    /\ tickets_available = 0
    /\ waitlist = 0
    /\ attendances = <<>>
    /\ raffle = <<>>
    /\ winners = <<>>
    /\ winner = 1
    /\ raised = "none"
    /\ requests = <<>>
    /\ guestlist = {}
    /\ sleeps = 0

(* ------------------------------- main ---------------------------------- *)

\* line 137: rsvps = _rsvps()
Rsvps ==
    /\ pc = "rsvps"
    /\ \E feed \in RawFeeds : rsvps' = _rsvps(feed)
    /\ pc' = "capacity"
    /\ UNCHANGED <<config, tickets_taken, tickets_available, waitlist,
                   attendances, raffle, winners, winner, raised, remote>>

\* lines 138-143: tickets_taken, tickets_available, waitlist
Capacity ==
    /\ pc = "capacity"
    /\ tickets_taken' = Attendees(rsvps, "yes")
    /\ tickets_available' = TicketsAvailable(TICKETS_MAX, tickets_taken')
    /\ waitlist' = Attendees(rsvps, "waitlist")
    /\ pc' = "attendances"
    /\ UNCHANGED <<config, rsvps, attendances, raffle, winners, winner,
                   raised, remote>>

\* line 144: attendances = _attendances()
Attendances ==
    /\ pc = "attendances"
    /\ attendances' \in AttendanceResults
    /\ pc' = "raffle"
    /\ UNCHANGED <<config, rsvps, tickets_taken, tickets_available, waitlist,
                   raffle, winners, winner, raised, remote>>

\* line 145: raffle = _raffle(rsvps, attendances)
Raffle ==
    /\ pc = "raffle"
    /\ raffle' = _raffle(rsvps, attendances)
    /\ pc' = "winners"
    /\ UNCHANGED <<config, rsvps, tickets_taken, tickets_available, waitlist,
                   attendances, winners, winner, raised, remote>>

\* the count main() asks _winners for
Requested == Min(tickets_available, waitlist)

\* lines 147-148: where the run goes with the for loop at position w
Loop(drawn, w) ==
    IF ADD_TO_GUESTLIST /\ w <= Len(drawn) THEN "post" ELSE "done"

\* line 146, the draw returns
WinnersDrawn ==
    /\ pc = "winners"
    /\ ~_winners_raises(raffle, Requested)
    /\ winners' \in _winners(raffle, Requested)
    /\ pc' = Loop(winners', winner)
    /\ UNCHANGED <<config, rsvps, tickets_taken, tickets_available, waitlist,
                   attendances, raffle, winner, raised, remote>>

\* line 146, the draw raises: the exception leaves main()
WinnersRaises ==
    /\ pc = "winners"
    /\ _winners_raises(raffle, Requested)
    /\ raised' = "ValueError"
    /\ pc' = "raised"
    /\ UNCHANGED <<config, rsvps, tickets_taken, tickets_available, waitlist,
                   attendances, raffle, winners, winner, remote>>

\* the request always names the first winner
PostFirst ==
    /\ pc = "post"
    /\ requests' = Append(requests, [member_id |-> winners[1],
                                     status |-> "pending"])
    /\ pc' = "response"
    /\ UNCHANGED <<config, rsvps, tickets_taken, tickets_available, waitlist,
                   attendances, raffle, winners, winner, raised, guestlist,
                   sleeps>>

\* lines 119-122: _add_to_guestlist sends the POST for the current winner
Post ==
    /\ pc = "post"
    /\ requests' = Append(requests, [member_id |-> winners[winner],
                                     status |-> "pending"])
    /\ pc' = "response"
    /\ UNCHANGED <<config, rsvps, tickets_taken, tickets_available, waitlist,
                   attendances, raffle, winners, winner, raised, guestlist,
                   sleeps>>

\* the request just sent, with its outcome filled in
Answered(status) ==
    [requests EXCEPT ![Len(requests)].status = status]

\* lines 123-127: the endpoint moved the member and the call returns
ResponseOk ==
    /\ pc = "response"
    /\ requests' = Answered("ok")
    /\ guestlist' = guestlist \cup {requests[Len(requests)].member_id}
    /\ pc' = "sleep"
    /\ UNCHANGED <<config, rsvps, tickets_taken, tickets_available, waitlist,
                   attendances, raffle, winners, winner, raised, sleeps>>

\* the HTTP error is caught and the loop goes on
ResponseErrorCaught ==
    /\ pc = "response"
    /\ requests' = Answered("error")
    /\ pc' = "sleep"
    /\ UNCHANGED <<config, rsvps, tickets_taken, tickets_available, waitlist,
                   attendances, raffle, winners, winner, raised, guestlist,
                   sleeps>>

\* line 123: raise_for_status() raises HTTPError, which leaves main()
ResponseError ==
    /\ pc = "response"
    /\ requests' = Answered("error")
    /\ raised' = "HTTPError"
    /\ pc' = "raised"
    /\ UNCHANGED <<config, rsvps, tickets_taken, tickets_available, waitlist,
                   attendances, raffle, winners, winner, guestlist, sleeps>>

\* line 150, then the next iteration of line 148
Sleep ==
    /\ pc = "sleep"
    /\ sleeps' = sleeps + 1
    /\ winner' = winner + 1
    /\ pc' = Loop(winners, winner')
    /\ UNCHANGED <<config, rsvps, tickets_taken, tickets_available, waitlist,
                   attendances, raffle, winners, raised, requests, guestlist>>

Next ==
    \/ Rsvps
    \/ Capacity
    \/ Attendances
    \/ Raffle
    \/ WinnersDrawn
    \/ WinnersRaises
    \/ Post
    \/ ResponseOk
    \/ ResponseError
    \/ Sleep

Spec == Init /\ [][Next]_vars

\* the runs with the apply-switch set to the word True
InitOn == Init /\ MEETUP_ADD_TO_GUESTLIST = <<"True">>

\* main() is one thread and every call it makes returns or raises: a step
\* that can be taken is taken
FairSpec == InitOn /\ [][Next]_vars /\ WF_vars(Next)

Terminated == pc \in {"done", "raised"}

(* --------------------------- positions --------------------------------- *)

\* lines 138-143 have run
AfterCapacity == pc \notin {"rsvps", "capacity"}

\* line 145 has just run
RaffleBuilt == pc = "winners"

\* line 145 has run
AfterRaffle == pc \notin {"rsvps", "capacity", "attendances", "raffle"}

\* line 146 has returned
AfterWinners ==
    \/ pc \in {"post", "response", "sleep", "done"}
    \/ pc = "raised" /\ raised = "HTTPError"

\* the sum of the attendees of the rows of `rows` at the positions in S
RECURSIVE AttendeesAt(_, _)
AttendeesAt(rows, S) ==
    IF S = {} THEN 0
    ELSE LET j == CHOOSE x \in S : TRUE
         IN  rows[j].attendees + AttendeesAt(rows, S \ {j})

\* the positions of the rows of `rows` whose response is r
PositionsOf(rows, r) == {j \in 1..Len(rows) : rows[j].response = r}

\* the member ids of a frame
MemberIds(frame) == {frame[j].member_id : j \in 1..Len(frame)}

\* the members the requests sent so far name, in order
Called == [j \in 1..Len(requests) |-> requests[j].member_id]

(* ------------------------------ claims --------------------------------- *)

\* C1: the count main() passes to the draw never exceeds the number of
\* RSVP records with response "waitlist", also when waitlisted RSVPs carry
\* guests.
C1_RequestedWithinWaitlist ==
    AfterRaffle =>
        /\ Requested >= 0
        /\ Requested <= Cardinality(PositionsOf(rsvps, "waitlist"))

\* C2: for every pool of n waitlisted entries and every k <= n, _winners
\* returns exactly k member ids, each of a waitlisted entry, none twice,
\* and the whole candidate set when k = n.
C2_WinnersExactlyK ==
    RaffleBuilt =>
        LET pool == MemberIds(Candidates(raffle))
            n == Len(Candidates(raffle))
        IN  \A k \in 0..n :
                /\ ~_winners_raises(raffle, k)
                /\ _winners(raffle, k) # {}
                /\ \A w \in _winners(raffle, k) :
                        /\ Len(w) = k
                        /\ Range(w) \subseteq pool
                        /\ Cardinality(Range(w)) = k
                        /\ k = n => Range(w) = pool

\* C3: the raffle table holds every RSVP record exactly once and nothing
\* else, and each entry's attendances is the member's count in the
\* attendance result plus 1, or 1 when the member has no row there.
C3_RaffleLeftJoin ==
    RaffleBuilt =>
        /\ Len(raffle) = Len(rsvps)
        /\ MemberIds(raffle) = MemberIds(rsvps)
        /\ \A r \in 1..Len(rsvps) :
                \E e \in 1..Len(raffle) :
                    /\ raffle[e].member_id = rsvps[r].member_id
                    /\ raffle[e].response = rsvps[r].response
                    /\ \A o \in 1..Len(raffle) :
                            raffle[o].member_id = rsvps[r].member_id => o = e
        /\ \A e \in 1..Len(raffle) :
                /\ raffle[e].attendances >= 1
                /\ \A a \in 1..Len(attendances) :
                        attendances[a].member_id = raffle[e].member_id =>
                            raffle[e].attendances
                                = attendances[a].attendances + 1
                /\ raffle[e].member_id \notin MemberIds(attendances) =>
                        raffle[e].attendances = 1

\* a raffle table with a member that has a count and a member that has none
C3_Witness ==
    /\ RaffleBuilt
    /\ \E e \in 1..Len(raffle) :
            /\ raffle[e].member_id \in MemberIds(attendances)
            /\ raffle[e].attendances = MaxAttendances + 1
    /\ \E e \in 1..Len(raffle) :
            /\ raffle[e].member_id \notin MemberIds(attendances)
            /\ raffle[e].attendances = 1

\* C4: tickets_taken is the sum of attendees over the "yes" records,
\* tickets_available is max(0, tickets_max - tickets_taken), never negative,
\* and 0 whenever tickets_taken exceeds tickets_max.
C4_Capacity ==
    AfterCapacity =>
        /\ tickets_taken = AttendeesAt(rsvps, PositionsOf(rsvps, "yes"))
        /\ tickets_available >= 0
        /\ tickets_taken <= TICKETS_MAX =>
                tickets_available = TICKETS_MAX - tickets_taken
        /\ tickets_taken > TICKETS_MAX => tickets_available = 0
        /\ tickets_taken + tickets_available >= TICKETS_MAX

\* more tickets taken than the maximum
C4_Witness ==
    /\ AfterCapacity
    /\ tickets_taken > TICKETS_MAX
    /\ tickets_available = 0

\* C5: with no waitlisted record, or with no ticket available, the run
\* completes without error, with no winner and no promotion call.
C5_NothingToDraw ==
    (/\ Terminated
     /\ \/ PositionsOf(rsvps, "waitlist") = {}
        \/ tickets_available = 0)
        => /\ pc = "done"
           /\ raised = "none"
           /\ winners = <<>>
           /\ requests = <<>>
           /\ guestlist = {}

\* the values of MEETUP_ADD_TO_GUESTLIST that leave the switch off: not
\* set, empty, and the word False
SwitchOff == {<<>>, <<"">>, <<"False">>}

\* C6: with the apply-switch off, which it is when not configured, no
\* promotion call is ever issued and nobody is promoted.
C6_SwitchOffNoPromotion ==
    MEETUP_ADD_TO_GUESTLIST \in SwitchOff =>
        /\ requests = <<>>
        /\ guestlist = {}

\* C7: a failed promotion call ends the run: it is the last call, it is not
\* sent again, no later winner is called, and the members promoted before
\* it stay promoted.
C7_FailureIsFatal ==
    /\ \A j \in 1..Len(requests) :
            requests[j].status = "error" =>
                /\ j = Len(requests)
                /\ pc = "raised"
                /\ raised = "HTTPError"
    /\ \A a, b \in 1..Len(requests) :
            requests[a].member_id = requests[b].member_id => a = b
    /\ guestlist =
            {requests[j].member_id :
                j \in {x \in 1..Len(requests) : requests[x].status = "ok"}}
    /\ Called = SubSeq(winners, 1, Len(requests))

\* the second call failed after the first succeeded
C7_Witness ==
    /\ pc = "raised"
    /\ Len(requests) = 2
    /\ requests[1].status = "ok"
    /\ requests[2].status = "error"
    /\ guestlist = {winners[1]}

\* what holds of the promotion calls in every state
C8_Sequential ==
    /\ \A j \in 1..Len(requests) :
            requests[j].status = "pending" =>
                j = Len(requests) /\ pc = "response"
    /\ pc = "response" => sleeps = Len(requests) - 1
    /\ requests # <<>> =>
            /\ AfterWinners
            /\ rsvps # <<>>
            /\ raffle = _raffle(rsvps, attendances)
            /\ winners \in _winners(raffle, Requested)
    /\ (Terminated /\ ADD_TO_GUESTLIST /\ raised # "HTTPError") =>
            /\ Called = winners
            /\ \A j \in 1..Len(requests) : requests[j].status = "ok"
            /\ guestlist = Range(winners)
            /\ sleeps = Len(winners)

\* C8: with the apply-switch on and no failing call the run terminates
\* with exactly one promotion call per winner and none for anybody else;
\* calls are sequential, each after the previous one returned and the
\* delay elapsed, and all of them after the fetch, the query and the draw.
C8_PromotionsComplete == []C8_Sequential /\ <>Terminated

\* two winners were promoted, one call after the other
C8_Witness ==
    /\ pc = "done"
    /\ ADD_TO_GUESTLIST
    /\ Len(winners) = 2
    /\ Called = winners
    /\ sleeps = 2

C10_CapacityInTickets ==
    (pc = "done" /\ tickets_taken <= TICKETS_MAX) =>
        tickets_taken
            + AttendeesAt(rsvps, {j \in 1..Len(rsvps) :
                                    rsvps[j].member_id \in guestlist})
        <= TICKETS_MAX

=============================================================================
